---- MODULE Spec2Model ----
(***************************************************************************)
(* Model of the CivicLens ingestion-and-retrieval pipeline.                *)
(*                                                                         *)
(*   app/chainlit_app.py  the /ingest and /status commands, the ingestion  *)
(*                        gate (_ingest_lock), the job task (_ingest_task) *)
(*                        and the job record (_ingest_last)                *)
(*   app/ingest.py        _load_docs, _chunk, _create_index,               *)
(*                        run_ingest_async                                 *)
(*   app/rag.py           _build_chain, answer_with_docs_async             *)
(*                                                                         *)
(* The program is one asyncio event loop.  A coroutine runs without        *)
(* interruption from one await that really suspends to the next, so every  *)
(* action below is one such run of one coroutine.                          *)
(***************************************************************************)
EXTENDS Integers, Sequences, FiniteSets, TLC

VARIABLES
    \* ---- app/chainlit_app.py ------------------------------------------
    _ingest_lock,     \* holder of the asyncio.Lock, or None
    waiters,          \* FIFO queue of handlers suspended in _ingest_lock.acquire()
    _ingest_task,     \* index into jobs of the latest task created, or None
    _ingest_last,     \* the job record: status, started_at, finished_at, stats, error
    pc,               \* where each message handler is suspended
    myTask,           \* the task a handler awaits at "await _ingest_task"
    snapshot,         \* the status the latest /status handler read and reported
    jobs,             \* every task created by asyncio.create_task(_ingest_job())
    wakeAhead,        \* the waiter woken by a release runs before the job's next step
    \* ---- the vector store (PostgreSQL) behind get_vector_store() --------
    entries,          \* the IndexEntries written, as <<run, chunk number>>
    indexExists,      \* an index named INDEX_NAME exists in the store
    builds,           \* how often an index named INDEX_NAME came into existence
    \* ---- the input directory -------------------------------------------
    fs,               \* glob's listing of the data directory
    \* ---- _load_docs run step by step -----------------------------------
    lpc, li, ldocs, lfiles,
    \* ---- app/rag.py : one call of answer_with_docs_async ----------------
    rpc,              \* where the call is suspended, "returned" or "raised"
    cohere_api_key,   \* os.getenv("COHERE_API_KEY") is set
    question,         \* the argument of the call
    chain,            \* what _build_chain wired: [multi_query, rerank]
    queries,          \* the queries the retriever searches
    hits,             \* the Documents found so far, query after query
    context,          \* result["context"]: the Documents the answer is written from
    reply,            \* {[answer, sources, context]} once the call has returned
    \* ---- app/rag.py : the response cache behind set_llm_cache -----------
    imported,         \* how the import of app/rag.py ended: "cached", "uncached", "import_error"
    redis_up,         \* the Redis server answers
    llm_cache,        \* the entries stored in Redis: [kind, question, context, val]
    asked,            \* questions asked so far
    \* ---- history (not program state) -----------------------------------
    issuedInFlight,   \* per handler: a job was in flight when its /ingest was issued
    behindStart,      \* the handler whose /ingest came right behind an accepted one
    writer,           \* the run that last wrote _ingest_last
    lastFault,        \* the pipeline step that raised in run writer, or "none"
    redundantBuilds,  \* builds attempted by a run whose existence check found the index
    rfault,           \* the step of the call that raised, or "none"
    served,           \* per model call of this request: "none", "cache" or "model"
    cacheFailed,      \* a lookup or an update of this request found Redis down
    ran,              \* the pipeline stages this request has executed
    expansionFailed   \* the query-expansion model failed in this call

chatVars  == <<_ingest_lock, waiters, _ingest_task, _ingest_last, pc, myTask,
               snapshot, jobs, wakeAhead>>
storeVars == <<entries, indexExists, builds>>
loadVars  == <<lpc, li, ldocs, lfiles>>
ragVars   == <<rpc, cohere_api_key, question, chain, queries, hits,
               context, reply>>
histVars  == <<issuedInFlight, behindStart, writer, lastFault,
               redundantBuilds>>
ragHistVars == <<rfault, expansionFailed>>
cacheVars == <<imported, redis_up, llm_cache, asked>>
cacheHistVars == <<served, cacheFailed, ran>>
vars      == <<chatVars, storeVars, fs, loadVars, ragVars, cacheVars, histVars,
               ragHistVars, cacheHistVars>>

\* Python's None: 0 where the value is otherwise a handler, a task or a time
\* (all counted from 1), the empty set where it is otherwise {stats}, and a
\* string of its own where it is otherwise a message.
None    == 0
NoStats == {}
NoError == "None"

-----------------------------------------------------------------------------
(* Bounds of the model. *)

NumHandlers == 3      \* message handlers that can be active at once
MaxJobs     == 2      \* ingestion tasks created in one behaviour
MaxFiles    == 3      \* entries of the data directory in the loader specification
MaxGen      == 1      \* queries the expansion model writes for one question
MaxHits     == 1      \* Documents one search returns (RAG_K, scaled down)
MaxTop      == 1      \* Documents the reranker keeps (RERANK_TOP_N, scaled down)
MaxAsk      == 2      \* questions asked in one behaviour of the cache specification
MaxCtx      == 2      \* chunks in the final context of the source-list specification

Handlers == 1..NumHandlers

-----------------------------------------------------------------------------
(* The input directory.  An entry of glob's listing is described by what   *)
(* _load_docs asks of it: whether it is a directory, whether its base name *)
(* starts with ".", its extension as written, whether its parser raises,   *)
(* and the Documents its parser yields (one per page for a PDF), each given *)
(* by the number of chunks it splits into.  A path is its position in the  *)
(* listing.                                                                *)

Entry(isdir, dot, ext, raises, pages) ==
    [isdir |-> isdir, dot |-> dot, ext |-> ext, raises |-> raises, pages |-> pages]

FileKinds ==
    { Entry(FALSE, FALSE, ".md",   FALSE, <<1>>),
      Entry(FALSE, FALSE, ".pdf",  FALSE, <<2, 1>>),
      Entry(FALSE, FALSE, ".docx", FALSE, <<2>>),
      Entry(FALSE, FALSE, ".txt",  FALSE, <<1>>),
      Entry(FALSE, FALSE, ".TXT",  FALSE, <<1>>),
      Entry(FALSE, FALSE, ".md",   TRUE,  <<1>>),
      Entry(FALSE, FALSE, ".pdf",  TRUE,  <<2, 1>>),
      Entry(FALSE, FALSE, ".docx", TRUE,  <<1>>),
      Entry(FALSE, FALSE, ".txt",  TRUE,  <<1>>),
      Entry(FALSE, FALSE, ".csv",  FALSE, <<1>>),
      Entry(FALSE, FALSE, "",      FALSE, <<1>>),
      Entry(TRUE,  FALSE, ".md",   FALSE, <<1>>),
      Entry(FALSE, TRUE,  ".txt",  FALSE, <<1>>),
      Entry(TRUE,  TRUE,  "",      FALSE, <<1>>) }

SeqsUpTo(S, n) == UNION { [1..k -> S] : k \in 0..n }

\* Directories the coordinator specification starts from.
IngestDirs ==
    { << Entry(FALSE, FALSE, ".txt", FALSE, <<3>>) >>,
      << Entry(FALSE, TRUE,  ".txt", FALSE, <<1>>),
         Entry(FALSE, FALSE, ".md",  TRUE,  <<1>>),
         Entry(FALSE, FALSE, ".pdf", FALSE, <<2, 1>>) >> }

-----------------------------------------------------------------------------
(* app/ingest.py : _load_docs                                              *)

\* str.lower() on the extensions that occur
Lower(ext) ==
    CASE ext = ".TXT" -> ".txt"
      [] ext = ".MD"  -> ".md"
      [] ext = ".PDF" -> ".pdf"
      [] OTHER        -> ext

\* the Documents a loader returns for path i
Parse(i, f) ==
    [p \in 1..Len(f.pages) |-> [source |-> i, page |-> p, len |-> f.pages[p]]]

\* the try body of the loop for one path: the four extension branches
LoadBranch(acc, i, f, ext) ==
    IF ext = ".md" THEN
        [acc EXCEPT !.docs = acc.docs \o Parse(i, f),
                    !.file_paths = Append(acc.file_paths, i)]
    ELSE IF ext = ".pdf" THEN
        [acc EXCEPT !.docs = acc.docs \o Parse(i, f),
                    !.file_paths = Append(acc.file_paths, i)]
    ELSE IF ext = ".docx" THEN
        [acc EXCEPT !.docs = acc.docs \o Parse(i, f),
                    !.file_paths = Append(acc.file_paths, i)]
    ELSE IF ext = ".txt" THEN
        [acc EXCEPT !.docs = acc.docs \o Parse(i, f),
                    !.file_paths = Append(acc.file_paths, i)]
    ELSE acc

\* the extensions for which the try body calls a loader
CallsLoader(ext) == ext \in {".md", ".pdf", ".docx", ".txt"}

\* LoadOne without its except clause: what a loader raises leaves the loop.
LoadOneNoExcept(acc, i, f) ==
    IF f.isdir \/ f.dot THEN acc
    ELSE LET ext == Lower(f.ext) IN
         IF CallsLoader(ext) /\ f.raises
         THEN [acc EXCEPT !.raised = TRUE]
         ELSE LoadBranch(acc, i, f, ext)

\* One iteration of the loop: the skip test, the dispatch, the except clause.
\* acc.raised says that an exception has left the loop; "except Exception"
\* catches what X(path).load() raises, so nothing is appended for that path
\* and the loop goes on.
LoadOne(acc, i, f) ==
    IF f.isdir \/ f.dot THEN acc
    ELSE LET ext == Lower(f.ext) IN
         IF CallsLoader(ext) /\ f.raises
         THEN acc
         ELSE LoadBranch(acc, i, f, ext)

NoneLoaded == [docs |-> <<>>, file_paths |-> <<>>, raised |-> FALSE]

RECURSIVE LoadFrom(_, _, _)
LoadFrom(acc, i, listing) ==
    IF i > Len(listing) \/ acc.raised THEN acc
    ELSE LoadFrom(LoadOne(acc, i, listing[i]), i + 1, listing)

_load_docs(listing) == LoadFrom(NoneLoaded, 1, listing)

-----------------------------------------------------------------------------
(* app/ingest.py : _chunk (when the splitter does not raise)               *)

Split(d) == [k \in 1..d.len |-> [source |-> d.source, page |-> d.page, part |-> k]]

RECURSIVE _chunk(_)
_chunk(docs) ==
    IF docs = <<>> THEN <<>> ELSE Split(Head(docs)) \o _chunk(Tail(docs))

\* the dict run_ingest_async returns
IngestStats(docs, chunks, file_paths) ==
    [documents |-> Len(docs), chunks |-> Len(chunks), files |-> file_paths]

\* _create_index without its early return
SkipsBuildNever(valid) == FALSE

\* _create_index: the build is skipped when the existence check answers true
SkipsBuild(valid) == valid

-----------------------------------------------------------------------------
(* app/chainlit_app.py : the job record and its three updates              *)

IdleRecord ==
    [status |-> "idle", started_at |-> None, finished_at |-> None,
     stats |-> NoStats, error |-> NoError]

\* the first update without its "status" entry
StartUpdateKeepsStatus(rec, now) ==
    [rec EXCEPT !.started_at = now, !.finished_at = None,
                !.stats = NoStats, !.error = NoError]

\* the first update without its "stats" entry
StartUpdateKeepsStats(rec, now) ==
    [rec EXCEPT !.status = "running", !.started_at = now, !.finished_at = None,
                !.error = NoError]

StartUpdate(rec, now) ==
    [rec EXCEPT !.status = "running", !.started_at = now, !.finished_at = None,
                !.stats = NoStats, !.error = NoError]

SuccessUpdate(rec, now, stats) ==
    [rec EXCEPT !.status = "succeeded", !.finished_at = now, !.stats = {stats}]

\* the failure update without its "status" entry
FailureUpdateKeepsStatus(rec, now, msg) ==
    [rec EXCEPT !.finished_at = now, !.error = msg]

FailureUpdate(rec, now, msg) ==
    [rec EXCEPT !.status = "failed", !.finished_at = now, !.error = msg]

\* the test of line 219 without ".done()"
TaskActiveIgnoresDone(task, js) == task # None

\* "_ingest_task and not _ingest_task.done()"
TaskActive(task, js) == task # None /\ js[task].pc # "done"

\* no chain is built
NoChain == [multi_query |-> FALSE, rerank |-> FALSE]

NewJob ==
    [pc |-> "created", cancelReq |-> FALSE, docs |-> <<>>, chunks |-> <<>>,
     files |-> <<>>, result |-> "none", sawIndex |-> FALSE]

\* a task that is done: its coroutine's locals are gone
Ended(job, result) ==
    [NewJob EXCEPT !.pc = "done", !.result = result, !.sawIndex = job.sawIndex]

\* the runs whose task has been created and is not done
InFlight == { t \in DOMAIN jobs : jobs[t].pc # "done" }

\* A task that has been created runs its first step in the next iteration of
\* the event loop, ahead of the waiter that the release of the lock wakes
\* after create_task and ahead of any handler whose send completes later.
FirstStepPending == \E t \in DOMAIN jobs : jobs[t].pc = "created"

\* A release of the lock has woken the first waiter, which has not run yet.
WakeupPending == _ingest_lock = None /\ waiters # <<>>

\* What a step of task t leaves in wakeAhead.  The step starts a request whose
\* completion the event loop sees in a later iteration, after it has run every
\* coroutine that was woken before: a waiter woken before this step enters the
\* gate before task t runs again.
WakeAheadOf(t, js) == WakeupPending /\ js[t].pc # "done"

\* a job coroutine is between its first statement and its first real await
OnCpu == \E t \in DOMAIN jobs : jobs[t].pc = "loading"

-----------------------------------------------------------------------------
(* app/chainlit_app.py : handle_command("/ingest")                         *)

\* After "async with _ingest_lock" is entered: the test of line 219 and the
\* message send that follows it, during which the lock stays held.
EnterGate(h) ==
    /\ _ingest_lock' = h
    /\ IF TaskActive(_ingest_task, jobs)
       THEN pc' = [pc EXCEPT ![h] = "rejecting"]
       ELSE pc' = [pc EXCEPT ![h] = "starting"]

\* the handlers whose /ingest has not yet been decided
Pending == { h \in Handlers : pc[h] \in {"wait_lock", "starting"} }

\* A handler receives "/ingest".  asyncio.Lock.acquire() returns at once when
\* the lock is free and nobody waits for it, and suspends in FIFO order otherwise.
IngestCmd(h) ==
    /\ pc[h] = "idle" /\ ~OnCpu
    /\ Len(jobs) + Cardinality(Pending) < MaxJobs
    /\ issuedInFlight' = [issuedInFlight EXCEPT ![h] = (InFlight # {})]
    /\ behindStart' = IF /\ _ingest_lock # None /\ waiters = <<>>
                         /\ pc[_ingest_lock] = "starting"
                      THEN h ELSE behindStart
    /\ IF _ingest_lock = None /\ waiters = <<>>
       THEN EnterGate(h) /\ UNCHANGED waiters
       ELSE /\ waiters' = Append(waiters, h)
            /\ pc' = [pc EXCEPT ![h] = "wait_lock"]
            /\ UNCHANGED _ingest_lock
    /\ UNCHANGED <<_ingest_task, _ingest_last, myTask, snapshot, jobs, wakeAhead,
                   storeVars, fs, loadVars, ragVars, cacheVars, writer,
                   lastFault, redundantBuilds, ragHistVars, cacheHistVars>>

\* The first waiter is woken after a release and enters the gate.
LockGranted(h) ==
    /\ pc[h] = "wait_lock" /\ ~OnCpu /\ ~FirstStepPending
    /\ _ingest_lock = None /\ waiters # <<>> /\ h = Head(waiters)
    /\ waiters' = Tail(waiters)
    /\ wakeAhead' = FALSE
    /\ EnterGate(h)
    /\ UNCHANGED <<_ingest_task, _ingest_last, myTask, snapshot, jobs, storeVars,
                   fs, loadVars, ragVars, cacheVars, histVars, ragHistVars,
                   cacheHistVars>>

\* The "already running" message is sent; return leaves the async with block.
RejectSent(h) ==
    /\ pc[h] = "rejecting" /\ ~OnCpu /\ ~FirstStepPending
    /\ _ingest_lock' = None
    /\ pc' = [pc EXCEPT ![h] = "idle"]
    /\ issuedInFlight' = [issuedInFlight EXCEPT ![h] = FALSE]
    /\ behindStart' = IF behindStart = h THEN None ELSE behindStart
    /\ UNCHANGED <<waiters, _ingest_task, _ingest_last, myTask, snapshot, jobs,
                   wakeAhead, storeVars, fs, loadVars, ragVars, cacheVars,
                   writer, lastFault, redundantBuilds, ragHistVars, cacheHistVars>>

\* The "Starting" message is sent; the task is created, the lock released and
\* the handler suspends in "await _ingest_task".
StartSent(h) ==
    /\ pc[h] = "starting" /\ ~OnCpu
    /\ jobs' = Append(jobs, NewJob)
    /\ _ingest_task' = Len(jobs) + 1
    /\ myTask' = [myTask EXCEPT ![h] = Len(jobs) + 1]
    /\ _ingest_lock' = None
    /\ pc' = [pc EXCEPT ![h] = "awaiting"]
    /\ behindStart' = IF behindStart = h THEN None ELSE behindStart
    /\ UNCHANGED <<waiters, _ingest_last, snapshot, wakeAhead, storeVars, fs,
                   loadVars, ragVars, cacheVars, issuedInFlight, writer,
                   lastFault, redundantBuilds, ragHistVars, cacheHistVars>>

\* "await _ingest_task" returns and the handler sends the report for the
\* status it reads (lines 231-254), or the await raises CancelledError in a
\* cancelled handler, which ends it.
AwaitDone(h) ==
    /\ pc[h] = "awaiting" /\ ~OnCpu
    /\ jobs[myTask[h]].pc = "done"
    /\ pc' = [pc EXCEPT ![h] = "idle"]
    /\ myTask' = [myTask EXCEPT ![h] = None]
    /\ issuedInFlight' = [issuedInFlight EXCEPT ![h] = FALSE]
    /\ UNCHANGED <<_ingest_lock, waiters, _ingest_task, _ingest_last, snapshot,
                   jobs, wakeAhead, storeVars, fs, loadVars, ragVars, cacheVars,
                   behindStart, writer, lastFault, redundantBuilds, ragHistVars,
                   cacheHistVars>>

\* The handler suspended in "await _ingest_task" is cancelled: asyncio passes
\* the cancellation on to the task it awaits.
Cancel(h) ==
    /\ pc[h] = "awaiting" /\ ~OnCpu
    /\ jobs[myTask[h]].pc # "done" /\ ~jobs[myTask[h]].cancelReq
    /\ jobs' = [jobs EXCEPT ![myTask[h]].cancelReq = TRUE]
    /\ UNCHANGED <<_ingest_lock, waiters, _ingest_task, _ingest_last, pc, myTask,
                   snapshot, wakeAhead, storeVars, fs, loadVars, ragVars,
                   cacheVars, histVars, ragHistVars, cacheHistVars>>

-----------------------------------------------------------------------------
(* app/chainlit_app.py : handle_command("/status")                         *)

\* /status as it would be inside "async with _ingest_lock"
StatusCmdUnderLock(h) ==
    /\ pc[h] = "idle" /\ ~OnCpu
    /\ _ingest_lock = None /\ waiters = <<>>
    /\ snapshot' = _ingest_last.status
    /\ UNCHANGED <<_ingest_lock, waiters, _ingest_task, _ingest_last, pc, myTask,
                   jobs, wakeAhead, storeVars, fs, loadVars, ragVars, cacheVars,
                   histVars, ragHistVars, cacheHistVars>>

\* The handler reads _ingest_last, with no lock and no await, and sends the
\* message for the status it read.
StatusCmd(h) ==
    /\ pc[h] = "idle" /\ ~OnCpu
    /\ snapshot' = _ingest_last.status
    /\ UNCHANGED <<_ingest_lock, waiters, _ingest_task, _ingest_last, pc, myTask,
                   jobs, wakeAhead, storeVars, fs, loadVars, ragVars, cacheVars,
                   histVars, ragHistVars, cacheHistVars>>

-----------------------------------------------------------------------------
(* app/chainlit_app.py : _ingest_job, around app/ingest.py :               *)
(* run_ingest_async.  The awaits of the pipeline are get_vector_store(),   *)
(* aadd_documents(), ais_valid_index() and aapply_vector_index().          *)

\* time.time(): run t reads the clock when it starts and when it ends, and
\* the clock has advanced in between and since the run before
StartTime(t)  == 2 * t - 1
FinishTime(t) == 2 * t

\* str(e) of the exception each pipeline step raises
ErrorMessage(fault) == fault

\* "except Exception": the failure update, after which the coroutine returns
JobFails(t, fault) ==
    /\ jobs' = [jobs EXCEPT ![t] = Ended(jobs[t], "returned")]
    /\ lastFault' = fault
    /\ _ingest_last' = FailureUpdate(_ingest_last, FinishTime(t), ErrorMessage(fault))
    /\ writer' = t

\* run_ingest_async returned its dict: the success update.  saw is what the
\* existence check of _create_index answered in this run.
JobSucceeds(t, saw) ==
    /\ jobs' = [jobs EXCEPT ![t] = Ended([jobs[t] EXCEPT !.sawIndex = saw], "returned")]
    /\ lastFault' = "none"
    /\ _ingest_last' = SuccessUpdate(_ingest_last, FinishTime(t),
                          IngestStats(jobs[t].docs, jobs[t].chunks, jobs[t].files))
    /\ writer' = t

\* The event loop runs the task for the first time: the update of lines 41-47.
\* A handler woken by the completion of the task it awaits was scheduled before
\* any task created later, so it runs first.
JobBegin(t) ==
    /\ jobs[t].pc = "created" /\ ~jobs[t].cancelReq /\ ~OnCpu
    /\ \A h \in Handlers : pc[h] = "awaiting" => jobs[myTask[h]].pc # "done"
    /\ _ingest_last' = StartUpdate(_ingest_last, StartTime(t))
    /\ writer' = t
    /\ lastFault' = "none"
    /\ jobs' = [jobs EXCEPT ![t].pc = "loading"]
    /\ UNCHANGED <<_ingest_lock, waiters, _ingest_task, pc, myTask, snapshot,
                   wakeAhead, storeVars, fs, loadVars, ragVars, cacheVars,
                   issuedInFlight, behindStart, redundantBuilds, ragHistVars,
                   cacheHistVars>>

\* Still in the same run of the coroutine: _load_docs() and _chunk(docs), both
\* synchronous; _chunk re-raises what the splitter raises.  Then the coroutine
\* suspends in get_vector_store().
JobLoad(t) ==
    /\ jobs[t].pc = "loading"
    /\ LET loaded == _load_docs(fs) IN
       IF loaded.raised
       THEN JobFails(t, "load")
       ELSE \/ /\ jobs' = [jobs EXCEPT ![t].pc = "get_store",
                                       ![t].docs = loaded.docs,
                                       ![t].files = loaded.file_paths,
                                       ![t].chunks = _chunk(loaded.docs)]
               /\ UNCHANGED <<_ingest_last, writer, lastFault>>
            \/ JobFails(t, "chunk")
    /\ wakeAhead' = WakeAheadOf(t, jobs')
    /\ UNCHANGED <<_ingest_lock, waiters, _ingest_task, pc, myTask, snapshot,
                   storeVars, fs, loadVars, ragVars, cacheVars, issuedInFlight,
                   behindStart, redundantBuilds, ragHistVars, cacheHistVars>>

\* get_vector_store() returns a store or raises.
JobStore(t) ==
    /\ jobs[t].pc = "get_store" /\ ~jobs[t].cancelReq /\ ~wakeAhead
    /\ \/ /\ jobs' = [jobs EXCEPT ![t].pc = "add"]
          /\ UNCHANGED <<_ingest_last, writer, lastFault>>
       \/ JobFails(t, "store")
    /\ wakeAhead' = WakeAheadOf(t, jobs')
    /\ UNCHANGED <<_ingest_lock, waiters, _ingest_task, pc, myTask, snapshot,
                   storeVars, fs, loadVars, ragVars, cacheVars, issuedInFlight,
                   behindStart, redundantBuilds, ragHistVars, cacheHistVars>>

\* aadd_documents returning with the last chunk not stored
WrittenAllButLast(t, k) == { <<t, n>> : n \in 1..(k - 1) }

\* the first k chunks of run t as IndexEntries
Written(t, k) == { <<t, n>> : n \in 1..k }

\* store.aadd_documents(chunks) returns, or raises (embedding or write error)
\* having written some prefix of the chunks.  Then _create_index suspends in
\* ais_valid_index().
JobAdd(t) ==
    /\ jobs[t].pc = "add" /\ ~jobs[t].cancelReq /\ ~wakeAhead
    /\ \/ /\ entries' = entries \cup Written(t, Len(jobs[t].chunks))
          /\ jobs' = [jobs EXCEPT ![t].pc = "check_index"]
          /\ UNCHANGED <<_ingest_last, writer, lastFault>>
       \/ /\ \E k \in 0..Len(jobs[t].chunks) : entries' = entries \cup Written(t, k)
          /\ JobFails(t, "add")
    /\ wakeAhead' = WakeAheadOf(t, jobs')
    /\ UNCHANGED <<_ingest_lock, waiters, _ingest_task, pc, myTask, snapshot,
                   indexExists, builds, fs, loadVars, ragVars, cacheVars,
                   issuedInFlight, behindStart, redundantBuilds, ragHistVars,
                   cacheHistVars>>

\* store.ais_valid_index(INDEX_NAME) answers from the store's state, or raises.
JobCheckIndex(t) ==
    /\ jobs[t].pc = "check_index" /\ ~jobs[t].cancelReq /\ ~wakeAhead
    /\ \/ IF SkipsBuild(indexExists)
          THEN JobSucceeds(t, indexExists)
          ELSE /\ jobs' = [jobs EXCEPT ![t].pc = "build", ![t].sawIndex = indexExists]
               /\ UNCHANGED <<_ingest_last, writer, lastFault>>
       \/ JobFails(t, "index_check")
    /\ wakeAhead' = WakeAheadOf(t, jobs')
    /\ UNCHANGED <<_ingest_lock, waiters, _ingest_task, pc, myTask, snapshot,
                   storeVars, fs, loadVars, ragVars, cacheVars, issuedInFlight,
                   behindStart, redundantBuilds, ragHistVars, cacheHistVars>>

\* store.aapply_vector_index(index, concurrently=True): CREATE INDEX raises
\* when the name is taken; otherwise it builds the index, or raises, and a
\* failed concurrent build may leave the (invalid) index behind.
JobBuild(t) ==
    /\ jobs[t].pc = "build" /\ ~jobs[t].cancelReq /\ ~wakeAhead
    /\ redundantBuilds' = redundantBuilds + (IF jobs[t].sawIndex THEN 1 ELSE 0)
    /\ IF indexExists
       THEN /\ JobFails(t, "index_build")
            /\ UNCHANGED <<indexExists, builds>>
       ELSE \/ /\ indexExists' = TRUE
               /\ builds' = builds + 1
               /\ JobSucceeds(t, jobs[t].sawIndex)
            \/ /\ \E left \in BOOLEAN :
                    /\ indexExists' = left
                    /\ builds' = builds + (IF left THEN 1 ELSE 0)
               /\ JobFails(t, "index_build")
    /\ wakeAhead' = WakeAheadOf(t, jobs')
    /\ UNCHANGED <<_ingest_lock, waiters, _ingest_task, pc, myTask, snapshot,
                   entries, fs, loadVars, ragVars, cacheVars, issuedInFlight,
                   behindStart, ragHistVars, cacheHistVars>>

\* CancelledError is thrown into the task at the await where it is suspended.
\* It is no Exception, so neither update of lines 54-65 runs.  What the store
\* did with a request that was in progress is not known to the program.
JobCancelled(t) ==
    /\ jobs[t].pc \in {"created", "get_store", "add", "check_index", "build"}
    /\ jobs[t].cancelReq /\ ~OnCpu
    /\ jobs[t].pc = "created" \/ ~wakeAhead
    /\ wakeAhead' = FALSE
    /\ jobs' = [jobs EXCEPT ![t] = Ended(jobs[t], "cancelled")]
    /\ IF jobs[t].pc = "add"
       THEN \E k \in 0..Len(jobs[t].chunks) : entries' = entries \cup Written(t, k)
       ELSE UNCHANGED entries
    /\ IF jobs[t].pc = "build" /\ ~indexExists
       THEN \E left \in BOOLEAN :
               /\ indexExists' = left
               /\ builds' = builds + (IF left THEN 1 ELSE 0)
       ELSE UNCHANGED <<indexExists, builds>>
    /\ redundantBuilds' = redundantBuilds
                          + (IF jobs[t].pc = "build" /\ jobs[t].sawIndex THEN 1 ELSE 0)
    /\ UNCHANGED <<_ingest_lock, waiters, _ingest_task, _ingest_last, pc, myTask,
                   snapshot, fs, loadVars, ragVars, cacheVars, issuedInFlight,
                   behindStart, writer, lastFault, ragHistVars, cacheHistVars>>

-----------------------------------------------------------------------------
(* The coordinator specification: handlers, the job and the store.         *)

\* the cache is not configured and no question is asked
NotServed == [kind \in {"expand", "answer"} |-> "none"]

CacheOff ==
    /\ imported = "uncached" /\ redis_up = FALSE /\ llm_cache = {} /\ asked = 0
    /\ served = NotServed /\ cacheFailed = FALSE /\ ran = {}

\* no call of answer_with_docs_async is made
RagOff ==
    /\ rpc = "off" /\ cohere_api_key = FALSE /\ question = "" /\ chain = NoChain
    /\ queries = <<>> /\ hits = <<>> /\ context = <<>> /\ reply = {}
    /\ rfault = "none" /\ expansionFailed = FALSE
    /\ CacheOff

LoaderIdle ==
    /\ lpc = "off" /\ li = 0 /\ ldocs = <<>> /\ lfiles = <<>>

CoordinatorIdle ==
    /\ _ingest_lock = None
    /\ waiters = <<>>
    /\ _ingest_task = None
    /\ _ingest_last = IdleRecord
    /\ pc = [h \in Handlers |-> "idle"]
    /\ myTask = [h \in Handlers |-> None]
    /\ snapshot = "none"
    /\ jobs = <<>>
    /\ wakeAhead = FALSE
    /\ entries = {}
    /\ indexExists = FALSE
    /\ builds = 0
    /\ issuedInFlight = [h \in Handlers |-> FALSE]
    /\ behindStart = None
    /\ writer = None
    /\ lastFault = "none"
    /\ redundantBuilds = 0

Init ==
    /\ CoordinatorIdle
    /\ fs \in IngestDirs
    /\ LoaderIdle
    /\ RagOff

Next ==
    \/ \E h \in Handlers : IngestCmd(h)
    \/ \E h \in Handlers : LockGranted(h)
    \/ \E h \in Handlers : RejectSent(h)
    \/ \E h \in Handlers : StartSent(h)
    \/ \E h \in Handlers : AwaitDone(h)
    \/ \E h \in Handlers : Cancel(h)
    \/ \E h \in Handlers : StatusCmd(h)
    \/ \E t \in DOMAIN jobs : JobBegin(t)
    \/ \E t \in DOMAIN jobs : JobLoad(t)
    \/ \E t \in DOMAIN jobs : JobStore(t)
    \/ \E t \in DOMAIN jobs : JobAdd(t)
    \/ \E t \in DOMAIN jobs : JobCheckIndex(t)
    \/ \E t \in DOMAIN jobs : JobBuild(t)
    \/ \E t \in DOMAIN jobs : JobCancelled(t)

Spec == Init /\ [][Next]_vars

-----------------------------------------------------------------------------
(* The loader specification: _load_docs run one path at a time over every  *)
(* listing of at most MaxFiles entries.                                    *)

LoadStep ==
    /\ lpc = "loop" /\ li <= Len(fs)
    /\ LET acc == LoadOne([docs |-> ldocs, file_paths |-> lfiles, raised |-> FALSE],
                          li, fs[li]) IN
       /\ ldocs' = acc.docs
       /\ lfiles' = acc.file_paths
       /\ lpc' = IF acc.raised THEN "raised" ELSE "loop"
    /\ li' = li + 1
    /\ UNCHANGED <<chatVars, storeVars, fs, ragVars, cacheVars, histVars,
                   ragHistVars, cacheHistVars>>

LoadReturn ==
    /\ lpc = "loop" /\ li > Len(fs)
    /\ lpc' = "returned"
    /\ UNCHANGED <<chatVars, storeVars, fs, li, ldocs, lfiles, ragVars,
                   cacheVars, histVars, ragHistVars, cacheHistVars>>

InitLoad ==
    /\ CoordinatorIdle
    /\ fs \in SeqsUpTo(FileKinds, MaxFiles)
    /\ lpc = "loop" /\ li = 1 /\ ldocs = <<>> /\ lfiles = <<>>
    /\ RagOff

NextLoad == LoadStep \/ LoadReturn

SpecLoad == InitLoad /\ [][NextLoad]_vars

-----------------------------------------------------------------------------
(* app/rag.py : answer_with_docs_async.  The retrievers, the reranker and  *)
(* the chains are LangChain's; each is modelled by what its call returns   *)
(* or raises.  The call suspends in get_vector_store(), in the expansion   *)
(* model, in each search of the store, in the reranker and in the answer   *)
(* model.                                                                  *)

USE_MULTI_QUERY == TRUE

Questions   == {"q1", "q2"}
Paraphrases == {"p1", "p2"}

\* The Documents of the store.  source is the position of metadata["source"]
\* in the alphabetical order of the paths, text stands for page_content.
Corpus ==
    { [source |-> 2, text |-> 1], [source |-> 1, text |-> 2],
      [source |-> 2, text |-> 3] }

Range(s) == { s[k] : k \in DOMAIN s }

\* the sequences of at most n different elements of S
NoRepeat(S, n) ==
    { s \in SeqsUpTo(S, n) : \A i, j \in DOMAIN s : i # j => s[i] # s[j] }

Min(a, b) == IF a < b THEN a ELSE b

RECURSIVE Flatten(_)
Flatten(ss) == IF ss = <<>> THEN <<>> ELSE Head(ss) \o Flatten(Tail(ss))

\* MultiQueryRetriever.unique_union: the first occurrence of each Document
RECURSIVE unique_union(_)
unique_union(ds) ==
    IF ds = <<>> THEN <<>>
    ELSE LET init == unique_union(SubSeq(ds, 1, Len(ds) - 1))
             last == ds[Len(ds)]
         IN  IF last \in Range(init) THEN init ELSE Append(init, last)

\* sorted(unique_sources)
RECURSIVE sorted(_)
sorted(S) ==
    IF S = {} THEN <<>>
    ELSE LET m == CHOOSE x \in S : \A y \in S : x <= y
         IN  <<m>> \o sorted(S \ {m})

\* the tuple answer_with_docs_async returns
Reply(q, ctx) ==
    [answer  |-> q,
     sources |-> sorted({ ctx[k].source : k \in DOMAIN ctx }),
     context |-> [k \in DOMAIN ctx |-> ctx[k].text]]

\* an exception leaves answer_with_docs_async, which catches none
Raise(step) ==
    /\ rpc' = "raised"
    /\ rfault' = step

\* handle_message calls answer_with_docs_async(content)
Ask(q) ==
    /\ rpc = "idle"
    /\ rpc' = "build"
    /\ question' = q
    /\ UNCHANGED <<chatVars, storeVars, fs, loadVars, cohere_api_key, chain,
                   queries, hits, context, reply, cacheVars, histVars,
                   ragHistVars, cacheHistVars>>

\* _build_chain.  get_vector_store() raises or returns; constructing the
\* multi-query retriever raises or not, and so does constructing the reranker:
\* both are caught and leave the retriever built so far; constructing the
\* answer model is not guarded.
_build_chain ==
    /\ rpc = "build"
    /\ \E store_ok, mq_ok, rr_ok, llm_ok \in BOOLEAN :
          IF ~store_ok
          THEN Raise("store") /\ UNCHANGED <<chain, queries, expansionFailed>>
          ELSE LET wired == [multi_query |-> USE_MULTI_QUERY /\ mq_ok,
                             rerank      |-> cohere_api_key /\ rr_ok]
               IN  /\ chain' = wired
                   /\ expansionFailed' = (USE_MULTI_QUERY /\ ~mq_ok)
                   /\ IF llm_ok
                      THEN /\ rpc' = IF wired.multi_query THEN "expand" ELSE "search"
                           /\ queries' = IF wired.multi_query THEN <<>> ELSE <<question>>
                           /\ UNCHANGED rfault
                      ELSE Raise("llm") /\ UNCHANGED queries
    /\ UNCHANGED <<chatVars, storeVars, fs, loadVars, cohere_api_key, question,
                   hits, context, reply, cacheVars, histVars, cacheHistVars>>

\* chain.ainvoke, MultiQueryRetriever: the expansion model writes its queries
\* and include_original=True appends the question, or the model call raises.
generate_queries ==
    /\ rpc = "expand"
    /\ \/ \E gen \in SeqsUpTo(Paraphrases, MaxGen) :
             /\ queries' = Append(gen, question)
             /\ rpc' = "search"
             /\ UNCHANGED <<rfault, expansionFailed>>
       \/ /\ Raise("expand")
          /\ expansionFailed' = TRUE
          /\ UNCHANGED queries
    /\ UNCHANGED <<chatVars, storeVars, fs, loadVars, cohere_api_key, question,
                   chain, hits, context, reply, cacheVars, histVars,
                   cacheHistVars>>

\* chain.ainvoke, the base retriever: the store is searched for the next query,
\* or the search raises.  After the last query the retriever returns: the
\* multi-query retriever the union of what was found, the base retriever what
\* was found for the question.
retrieve_documents ==
    /\ rpc = "search" /\ Len(hits) < Len(queries)
    /\ \/ \E found \in NoRepeat(Corpus, MaxHits) :
             LET all == Append(hits, found) IN
             /\ hits' = all
             /\ IF Len(all) < Len(queries)
                THEN UNCHANGED <<rpc, context>>
                ELSE /\ context' = IF chain.multi_query
                                   THEN unique_union(Flatten(all)) ELSE all[1]
                     /\ rpc' = IF chain.rerank THEN "rerank" ELSE "answer"
             /\ UNCHANGED rfault
       \/ Raise("search") /\ UNCHANGED <<hits, context>>
    /\ UNCHANGED <<chatVars, storeVars, fs, loadVars, cohere_api_key, question,
                   chain, queries, reply, cacheVars, histVars, cacheHistVars,
                   expansionFailed>>

\* chain.ainvoke, ContextualCompressionRetriever: CohereRerank keeps the top_n
\* Documents in the order of its scores, or its call raises.
compress_documents ==
    /\ rpc = "rerank"
    /\ \/ \E kept \in NoRepeat(Range(context), MaxTop) :
             /\ Len(kept) = Min(MaxTop, Len(context))
             /\ context' = kept
             /\ rpc' = "answer"
             /\ UNCHANGED rfault
       \/ Raise("rerank") /\ UNCHANGED context
    /\ UNCHANGED <<chatVars, storeVars, fs, loadVars, cohere_api_key, question,
                   chain, queries, hits, reply, cacheVars, histVars,
                   cacheHistVars, expansionFailed>>

\* chain.ainvoke, the document chain: the answer model answers or raises; then
\* lines 113-123 build the tuple.
Answer ==
    /\ rpc = "answer"
    /\ \/ /\ reply' = {Reply(question, context)}
          /\ rpc' = "returned"
          /\ UNCHANGED rfault
       \/ Raise("answer") /\ UNCHANGED reply
    /\ UNCHANGED <<chatVars, storeVars, fs, loadVars, cohere_api_key, question,
                   chain, queries, hits, context, cacheVars, histVars,
                   cacheHistVars, expansionFailed>>

\* handle_message shows the answer, or the error it caught, and ends.
Shown ==
    /\ rpc \in {"returned", "raised"}
    /\ rpc' = "idle"
    /\ question' = "" /\ chain' = NoChain /\ queries' = <<>> /\ hits' = <<>>
    /\ context' = <<>> /\ reply' = {}
    /\ rfault' = "none" /\ expansionFailed' = FALSE
    /\ UNCHANGED <<chatVars, storeVars, fs, loadVars, cohere_api_key, cacheVars,
                   histVars, cacheHistVars>>

InitRag ==
    /\ CoordinatorIdle
    /\ fs = <<>>
    /\ LoaderIdle
    /\ rpc = "idle" /\ cohere_api_key \in BOOLEAN /\ question = "" /\ chain = NoChain
    /\ queries = <<>> /\ hits = <<>> /\ context = <<>> /\ reply = {}
    /\ rfault = "none" /\ expansionFailed = FALSE
    /\ CacheOff

NextRag ==
    \/ \E q \in Questions : Ask(q)
    \/ _build_chain
    \/ generate_queries
    \/ retrieve_documents
    \/ compress_documents
    \/ Answer
    \/ Shown

SpecRag == InitRag /\ [][NextRag]_vars

-----------------------------------------------------------------------------
(* app/rag.py : the response cache.  Lines 41-55 install a RedisCache as    *)
(* LangChain's global LLM cache when REDIS_URL is set and the server        *)
(* answers a ping.  From then on every call of a chat model (the expansion  *)
(* model and the answer model) looks its prompt up in Redis first and       *)
(* stores its generation afterwards; RedisCache logs and swallows what      *)
(* Redis raises in either.  Retrieval and reranking are one step here.      *)

CacheQuestions == {"q1", "q1b", "q2"}
Answers        == {"a1", "a2"}
\* what the expansion model may generate, and what a search may find
Expansions     == {<<>>, <<"p1">>}
Found          == {<<>>, <<[source |-> 1, text |-> 2]>>}

\* lines 41-55 without the except clause: what the setup raises leaves the import
SetupCacheNoExcept(url, ping_ok) ==
    IF url THEN (IF ping_ok THEN "cached" ELSE "import_error") ELSE "uncached"

\* lines 41-55: the cache is installed when REDIS_URL is set and the ping
\* succeeds; an exception in the setup is printed and the import goes on
SetupCache(url, ping_ok) == IF url /\ ping_ok THEN "cached" ELSE "uncached"

\* the cache key: the prompt of the call.  The expansion prompt holds the
\* question, the answer prompt the question and the context.
Key(kind, q, ctx) == [kind |-> kind, question |-> q, context |-> ctx]

KeyOf(e) == Key(e.kind, e.question, e.context)

\* lookup matching any stored prompt of a question within the threshold
lookupNear(key) ==
    IF imported = "cached" /\ redis_up
    THEN { e.val : e \in { x \in llm_cache :
                              /\ x.kind = key.kind /\ x.context = key.context
                              /\ (x.question = key.question
                                    \/ {x.question, key.question} = {"q1", "q1b"}) } }
    ELSE {}

\* RedisCache.lookup: the stored generations of exactly this prompt; none when
\* no cache is installed or Redis does not answer
lookup(key) ==
    IF imported = "cached" /\ redis_up
    THEN { e.val : e \in { x \in llm_cache : KeyOf(x) = key } }
    ELSE {}

\* RedisCache.update, with Redis as it is when the model has answered
update(key, val, up) ==
    IF imported = "cached" /\ up
    THEN { x \in llm_cache : KeyOf(x) # key }
            \cup { [kind |-> key.kind, question |-> key.question,
                    context |-> key.context, val |-> val] }
    ELSE llm_cache

\* handle_message calls answer_with_docs_async(content); with the import of
\* app/rag.py failed there is no function to call
CacheAsk(q) ==
    /\ rpc = "idle" /\ asked < MaxAsk
    /\ asked' = asked + 1
    /\ question' = q
    /\ IF imported = "import_error"
       THEN Raise("cache")
       ELSE rpc' = "expand" /\ UNCHANGED rfault
    /\ UNCHANGED <<chatVars, storeVars, fs, loadVars, cohere_api_key, chain,
                   queries, hits, context, reply, imported, redis_up, llm_cache,
                   histVars, cacheHistVars, expansionFailed>>

\* The expansion model is called through the cache: a stored generation of the
\* same prompt is returned without calling the model; otherwise the model is
\* called, raises or answers, and the answer is stored if Redis takes it.
CachedExpand ==
    /\ rpc = "expand"
    /\ LET key == Key("expand", question, <<>>)
           found == lookup(key)
       IN  IF found # {}
           THEN /\ \E v \in found : queries' = Append(v, question)
                /\ served' = [served EXCEPT !["expand"] = "cache"]
                /\ rpc' = "search"
                /\ UNCHANGED <<llm_cache, redis_up, cacheFailed, ran, rfault>>
           ELSE \/ \E gen \in Expansions :
                   \E up \in (IF imported = "cached" THEN BOOLEAN ELSE {redis_up}) :
                      /\ queries' = Append(gen, question)
                      /\ redis_up' = up
                      /\ llm_cache' = update(key, gen, up)
                      /\ cacheFailed' = (cacheFailed
                                          \/ (imported = "cached" /\ ~(redis_up /\ up)))
                      /\ served' = [served EXCEPT !["expand"] = "model"]
                      /\ ran' = ran \cup {"expand"}
                      /\ rpc' = "search"
                      /\ UNCHANGED rfault
                \/ /\ Raise("expand")
                   /\ UNCHANGED <<queries, llm_cache, redis_up, cacheFailed, served, ran>>
    /\ UNCHANGED <<chatVars, storeVars, fs, loadVars, cohere_api_key, question,
                   chain, hits, context, reply, imported, asked, histVars,
                   expansionFailed>>

\* the store is searched (and the result reranked); the cache has no part in it
CachedSearch ==
    /\ rpc = "search"
    /\ \/ \E found \in Found :
             /\ context' = found
             /\ ran' = ran \cup {"search"}
             /\ rpc' = "answer"
             /\ UNCHANGED rfault
       \/ Raise("search") /\ UNCHANGED <<context, ran>>
    /\ UNCHANGED <<chatVars, storeVars, fs, loadVars, cohere_api_key, question,
                   chain, queries, hits, reply, cacheVars, histVars, served,
                   cacheFailed, expansionFailed>>

\* The answer model is called through the cache, as the expansion model is.
CachedAnswer ==
    /\ rpc = "answer"
    /\ LET key == Key("answer", question, context)
           found == lookup(key)
       IN  IF found # {}
           THEN /\ \E v \in found : reply' = {Reply(v[1], context)}
                /\ served' = [served EXCEPT !["answer"] = "cache"]
                /\ rpc' = "returned"
                /\ UNCHANGED <<llm_cache, redis_up, cacheFailed, ran, rfault>>
           ELSE \/ \E a \in Answers :
                   \E up \in (IF imported = "cached" THEN BOOLEAN ELSE {redis_up}) :
                      /\ reply' = {Reply(a, context)}
                      /\ redis_up' = up
                      /\ llm_cache' = update(key, <<a>>, up)
                      /\ cacheFailed' = (cacheFailed
                                          \/ (imported = "cached" /\ ~(redis_up /\ up)))
                      /\ served' = [served EXCEPT !["answer"] = "model"]
                      /\ ran' = ran \cup {"answer"}
                      /\ rpc' = "returned"
                      /\ UNCHANGED rfault
                \/ /\ Raise("answer")
                   /\ UNCHANGED <<reply, llm_cache, redis_up, cacheFailed, served, ran>>
    /\ UNCHANGED <<chatVars, storeVars, fs, loadVars, cohere_api_key, question,
                   chain, queries, hits, context, imported, asked, histVars,
                   expansionFailed>>

\* the Redis server goes away or comes back between two requests
RedisChange ==
    /\ imported = "cached" /\ rpc = "idle"
    /\ redis_up' = ~redis_up
    /\ UNCHANGED <<chatVars, storeVars, fs, loadVars, ragVars, imported,
                   llm_cache, asked, histVars, ragHistVars, cacheHistVars>>

\* handle_message shows the answer, or the error it caught, and ends
CacheShown ==
    /\ rpc \in {"returned", "raised"}
    /\ rpc' = "idle"
    /\ question' = "" /\ queries' = <<>> /\ context' = <<>> /\ reply' = {}
    /\ rfault' = "none"
    /\ served' = NotServed /\ cacheFailed' = FALSE /\ ran' = {}
    /\ UNCHANGED <<chatVars, storeVars, fs, loadVars, cohere_api_key, chain,
                   hits, cacheVars, histVars, expansionFailed>>

InitCache ==
    /\ CoordinatorIdle
    /\ fs = <<>>
    /\ LoaderIdle
    /\ rpc = "idle" /\ cohere_api_key = FALSE /\ question = "" /\ chain = NoChain
    /\ queries = <<>> /\ hits = <<>> /\ context = <<>> /\ reply = {}
    /\ rfault = "none" /\ expansionFailed = FALSE
    /\ \E url, ping_ok \in BOOLEAN :
          /\ imported = SetupCache(url, ping_ok)
          /\ redis_up = (url /\ ping_ok)
    /\ llm_cache = {} /\ asked = 0
    /\ served = NotServed /\ cacheFailed = FALSE /\ ran = {}

NextCache ==
    \/ \E q \in CacheQuestions : CacheAsk(q)
    \/ CachedExpand
    \/ CachedSearch
    \/ CachedAnswer
    \/ RedisChange
    \/ CacheShown

SpecCache == InitCache /\ [][NextCache]_vars

-----------------------------------------------------------------------------
(* app/rag.py, lines 113-123 : the source list answer_with_docs_async      *)
(* builds from the final context, as a function of that context.  A chunk  *)
(* whose metadata has no "source" gives None (d.metadata.get("source")).   *)

\* the chunks a final context is made of; source None: no source metadata
Chunks == [source : {None, 1, 2}, text : {1, 2}]

Contexts == SeqsUpTo(Chunks, MaxCtx)

\* line 116: unique_sources = {d.metadata.get("source") for d in docs}
unique_sources(ctx) == { ctx[k].source : k \in DOMAIN ctx }

\* line 117: Python 3 orders None with nothing else, so sorted() raises
\* TypeError as soon as it compares None with a string; one element alone is
\* compared with nothing
Orderable(S) == None \notin S \/ S = {None}

\* lines 113-123 for a context whose sources can be sorted
SourcesReturn ==
    /\ rpc = "answer"
    /\ Orderable(unique_sources(context))
    /\ \E a \in Answers : reply' = {Reply(a, context)}
    /\ rpc' = "returned"
    /\ UNCHANGED rfault
    /\ UNCHANGED <<chatVars, storeVars, fs, loadVars, cohere_api_key, question,
                   chain, queries, hits, context, cacheVars, histVars,
                   cacheHistVars, expansionFailed>>

\* line 117 raises TypeError; nothing in answer_with_docs_async catches it
SourcesRaise ==
    /\ rpc = "answer"
    /\ ~Orderable(unique_sources(context))
    /\ Raise("sources")
    /\ UNCHANGED <<chatVars, storeVars, fs, loadVars, cohere_api_key, question,
                   chain, queries, hits, context, reply, cacheVars, histVars,
                   cacheHistVars, expansionFailed>>

InitSources ==
    /\ CoordinatorIdle
    /\ fs = <<>>
    /\ LoaderIdle
    /\ rpc = "answer" /\ cohere_api_key = FALSE /\ question \in Questions
    /\ chain = NoChain
    /\ queries = <<>> /\ hits = <<>> /\ context \in Contexts /\ reply = {}
    /\ rfault = "none" /\ expansionFailed = FALSE
    /\ CacheOff

NextSources ==
    \/ SourcesReturn
    \/ SourcesRaise

SpecSources == InitSources /\ [][NextSources]_vars

-----------------------------------------------------------------------------
(* Properties of the ingestion coordinator (specification Spec).           *)

Status == _ingest_last.status

\* C1: at most one ingestion job is in flight at any time, and a start request
\* issued while a job is in flight is rejected: it is never accepted, so it
\* never reaches the "Starting" message or the creation of a task.
C1_StartInFlightIsRejected ==
    /\ Cardinality(InFlight) <= 1
    /\ \A h \in Handlers :
          issuedInFlight[h] => pc[h] \notin {"starting", "awaiting"}

\* The part of C1 that the gate does enforce.
C1_AtMostOneInFlight == Cardinality(InFlight) <= 1

\* C2: a start() that is rejected leaves the job record, the task and the job
\* itself unchanged, and it is rejected only while a job is in flight.  Of two
\* /ingest issued back to back the second is rejected, unless the first run was
\* cancelled or failed before its first await.  A run that returns without a
\* fault leaves the record succeeded with its own stats, whatever was rejected
\* meanwhile.
RejectStep(h) ==
    \/ pc[h] # "rejecting" /\ pc'[h] = "rejecting"
    \/ pc[h] = "rejecting" /\ pc'[h] # "rejecting"

C2_RejectedStartChangesNothing ==
    /\ [][\A h \in Handlers :
            RejectStep(h) =>
               /\ UNCHANGED <<_ingest_last, _ingest_task, jobs, storeVars>>
               /\ (pc'[h] = "rejecting" => InFlight # {})]_vars
    /\ [][\A h \in Handlers :
            (h = behindStart /\ pc[h] = "wait_lock" /\ pc'[h] = "starting") =>
               /\ jobs[_ingest_task].pc = "done"
               /\ \/ jobs[_ingest_task].result = "cancelled"
                  \/ writer = _ingest_task /\ lastFault \in {"load", "chunk"}]_vars
    /\ [](\A h \in Handlers :
            (/\ pc[h] = "rejecting"
             /\ writer = _ingest_task
             /\ jobs[writer].pc = "done" /\ jobs[writer].result = "returned"
             /\ lastFault = "none")
            => /\ Status = "succeeded"
               /\ \E st \in _ingest_last.stats :
                     st.documents = Len(_load_docs(fs).docs))

\* the second of two /ingest issued back to back is being rejected, and the
\* run it met has meanwhile succeeded
C2_Witness ==
    \E h \in Handlers :
        /\ pc[h] = "rejecting" /\ behindStart = h
        /\ writer = _ingest_task /\ writer # None
        /\ jobs[writer].pc = "done"
        /\ Status = "succeeded"

\* C3: whenever an ingestion job is in flight (its task is created and not
\* done) the record says running, with started_at set.
C3_InFlightIsRunning ==
    InFlight # {} => Status = "running" /\ _ingest_last.started_at # None

\* C4: the status starts idle and changes only along idle -> running,
\* running -> succeeded, running -> failed, succeeded -> running and
\* failed -> running; only a step of a task changes the record, so no
\* handler, /status included, does.
StatusEdges ==
    { <<"idle", "running">>, <<"running", "succeeded">>, <<"running", "failed">>,
      <<"succeeded", "running">>, <<"failed", "running">> }

C4_StatusEdges ==
    /\ Status = "idle"
    /\ [][/\ _ingest_last'.status # Status
             => <<Status, _ingest_last'.status>> \in StatusEdges
          /\ (jobs' = jobs \/ Len(jobs') # Len(jobs))
             => _ingest_last' = _ingest_last]_vars

\* the second run has ended: the record left a final status through running
C4_Witness ==
    /\ writer = 2 /\ jobs[2].pc = "done"
    /\ Status \in {"succeeded", "failed"}

\* C5: the fields of the record agree with its status.
GoodFile(f) ==
    /\ ~f.isdir /\ ~f.dot /\ ~f.raises
    /\ Lower(f.ext) \in {".md", ".pdf", ".docx", ".txt"}

RECURSIVE SumPages(_)
SumPages(pages) == IF pages = <<>> THEN 0 ELSE Head(pages) + SumPages(Tail(pages))

RECURSIVE GoodFrom(_, _)
\* <<paths, number of documents, number of chunks>> of the good files from path i on
GoodFrom(listing, i) ==
    IF i > Len(listing) THEN <<  <<>>, 0, 0 >>
    ELSE LET rest == GoodFrom(listing, i + 1) IN
         IF GoodFile(listing[i])
         THEN << <<i>> \o rest[1], Len(listing[i].pages) + rest[2],
                 SumPages(listing[i].pages) + rest[3] >>
         ELSE rest

C5_RecordMatchesStatus ==
    /\ Status = "idle" =>
          /\ _ingest_last.started_at = None /\ _ingest_last.finished_at = None
          /\ _ingest_last.stats = NoStats /\ _ingest_last.error = NoError
    /\ Status = "running" =>
          /\ _ingest_last.started_at # None /\ _ingest_last.finished_at = None
          /\ _ingest_last.stats = NoStats /\ _ingest_last.error = NoError
    /\ Status = "succeeded" =>
          /\ _ingest_last.finished_at # None
          /\ _ingest_last.error = NoError
          /\ _ingest_last.stats =
                { [documents |-> GoodFrom(fs, 1)[2], chunks |-> GoodFrom(fs, 1)[3],
                   files |-> GoodFrom(fs, 1)[1]] }
    /\ Status = "failed" =>
          /\ _ingest_last.finished_at # None
          /\ _ingest_last.error # NoError
          /\ _ingest_last.error = lastFault
          /\ _ingest_last.stats = NoStats

\* a failed second run, after a first run that wrote all its chunks
C5_Witness ==
    /\ Status = "failed" /\ writer = 2
    /\ Written(1, GoodFrom(fs, 1)[3]) \subseteq entries
    /\ GoodFrom(fs, 1)[3] > 0

C8_PipelineFailureIsFatal ==
    lastFault # "none" =>
        /\ Status = "failed"
        /\ _ingest_last.error = ErrorMessage(lastFault)
        /\ jobs[writer].pc = "done"
        /\ lastFault = "chunk" => \A e \in entries : e[1] # writer

C8_Witness ==
    /\ lastFault = "chunk" /\ writer = 2
    /\ entries # {}

\* C9: an index named INDEX_NAME comes into existence at most once, and a run
\* whose existence check found the index attempts no build and returns
\* normally.
C9_IndexBuiltOnce ==
    /\ builds <= 1
    /\ redundantBuilds = 0
    /\ \A t \in DOMAIN jobs :
          jobs[t].sawIndex =>
             /\ jobs[t].pc = "done"
             /\ (jobs[t].result = "returned" /\ writer = t) => Status = "succeeded"

\* the second run found the index of the first and succeeded without a build
C9_Witness ==
    /\ builds = 1
    /\ writer = 2 /\ jobs[2].sawIndex /\ jobs[2].pc = "done"
    /\ Status = "succeeded"

\* the IndexEntries of the first k chunks of run t
EntriesOf(t, k) == { <<t, n>> : n \in 1..k }

\* C15: in every run the steps come in the order load, chunk, add, ensure
\* index: nothing of a run is in the store before it has loaded and chunked;
\* while the run checks for the index or builds it, every chunk of it has been
\* added; and a run is reported as succeeded only when all its chunks are in
\* the store and the index exists.
C15_StepsInOrder ==
    \A t \in DOMAIN jobs :
       /\ jobs[t].pc \in {"created", "loading", "get_store", "add"} =>
              \A e \in entries : e[1] # t
       /\ jobs[t].pc \in {"get_store", "add", "check_index", "build"} =>
              /\ jobs[t].docs = _load_docs(fs).docs
              /\ jobs[t].chunks = _chunk(jobs[t].docs)
       /\ jobs[t].pc \in {"check_index", "build"} =>
              EntriesOf(t, Len(jobs[t].chunks)) \subseteq entries
       /\ (Status = "succeeded" /\ writer = t) =>
              /\ jobs[t].pc = "done"
              /\ indexExists
              /\ \A s \in _ingest_last.stats :
                    EntriesOf(t, s.chunks) \subseteq entries

\* a run with chunks to add built the index and is reported as succeeded
C15_Witness ==
    /\ Status = "succeeded" /\ writer = 1
    /\ builds = 1 /\ ~jobs[1].sawIndex
    /\ \E s \in _ingest_last.stats : s.chunks >= 2 /\ <<1, s.chunks>> \in entries

\* C16: a job that has entered "running" leaves it however its task ends, by
\* return, by an exception or by cancellation at an await: the record is never
\* "running" with no task in flight, and once the task of the run that wrote
\* the record last is done the record is "succeeded" or "failed" with
\* finished_at set.
C16_RunningJobHasTaskInFlight ==
    /\ Status = "running" => InFlight # {}
    /\ \A t \in DOMAIN jobs :
          (jobs[t].pc = "done" /\ writer = t) =>
             /\ Status \in {"succeeded", "failed"}
             /\ _ingest_last.finished_at # None

-----------------------------------------------------------------------------
(* Properties of _load_docs (specification SpecLoad).                      *)

\* C7: the load never raises, and what it returns is exactly the good files
\* (not a directory, not hidden, a supported extension in any letter case,
\* parsed without error) in listing order, with exactly their Documents.
RECURSIVE DocsOf(_, _)
DocsOf(listing, paths) ==
    IF paths = <<>> THEN <<>>
    ELSE Parse(Head(paths), listing[Head(paths)]) \o DocsOf(listing, Tail(paths))

C7_LoadSkipsBadFiles ==
    /\ lpc # "raised"
    /\ lpc = "returned" =>
          /\ li = Len(fs) + 1
          /\ lfiles = GoodFrom(fs, 1)[1]
          /\ ldocs = DocsOf(fs, GoodFrom(fs, 1)[1])
          /\ \A k \in 1..Len(ldocs) : GoodFile(fs[ldocs[k].source])

\* a file whose parser raised is followed by a file that was loaded
C7_Witness ==
    /\ lpc = "returned"
    /\ \E i, j \in 1..Len(fs) :
          /\ i < j
          /\ fs[i].raises /\ ~fs[i].isdir /\ ~fs[i].dot
          /\ Lower(fs[i].ext) \in {".md", ".pdf", ".docx", ".txt"}
          /\ \E k \in 1..Len(lfiles) : lfiles[k] = j

-----------------------------------------------------------------------------
(* Properties of answer_with_docs_async (specification SpecRag).           *)

\* the call has a query set and has not raised
Searching == rpc \in {"search", "rerank", "answer", "returned"}

\* C10: no call raises because the expansion model failed; a call in which
\* expansion failed goes on with the question as its only query; and the
\* question is always one of the queries searched.
C10_ExpansionFailureIsNotFatal ==
    /\ rfault # "expand"
    /\ (expansionFailed /\ Searching) => queries = <<question>>
    /\ Searching => question \in Range(queries)

\* what the retriever under the reranker returned for the queries searched
Unranked == IF chain.multi_query THEN unique_union(Flatten(hits)) ELSE hits[1]

\* C11: no call raises because the reranker failed, and a call whose chain has
\* no reranker (no credential, or its construction failed) passes what was
\* retrieved to the answer model unchanged.
C11_RerankFailureIsNotFatal ==
    /\ rfault # "rerank"
    /\ (rpc \in {"answer", "returned"} /\ ~chain.rerank) => context = Unranked

-----------------------------------------------------------------------------
(* Properties of the response cache (specification SpecCache).             *)

Distance(a, b) ==
    IF a = b THEN 0 ELSE IF {a, b} = {"q1", "q1b"} THEN 2 ELSE 10

\* constants.py: 0.8, held in tenths as the distances are
REDIS_CACHE_DISTANCE_THRESHOLD == 8

\* an entry of another question within the threshold is stored
NearEntry(q) ==
    \E e \in llm_cache :
        e.question # q /\ Distance(e.question, q) <= REDIS_CACHE_DISTANCE_THRESHOLD

Stages == {"expand", "search", "answer"}

-----------------------------------------------------------------------------
(* Properties of the source list (specification SpecSources).              *)

\* the source ids of the chunks of a context that carry one
SourceIds(ctx) == { ctx[k].source : k \in { j \in DOMAIN ctx : ctx[j].source # None } }

\* C14: for every final context, chunks without source metadata and the empty
\* context included, the call returns without raising; the source list is
\* sorted, free of duplicates and holds exactly the source ids of the chunks
\* of the context (none for the empty context); the context list is the texts
\* of the chunks in their order.
C14_SourcesAreTheSortedSetOfTheContext ==
    rpc \in {"returned", "raised"} =>
        /\ rpc = "returned"
        /\ \A r \in reply :
              /\ \A i, j \in DOMAIN r.sources : i < j => r.sources[i] < r.sources[j]
              /\ Range(r.sources) = SourceIds(context)
              /\ context = <<>> => r.sources = <<>>
              /\ r.context = [k \in DOMAIN context |-> context[k].text]

====
